---- MODULE Spec2Model ----
(***************************************************************************)
(* Model of fetcher/src/utils.rs: the Fetcher (server pool, request        *)
(* executor, trending cache, search cache) and the Duration codec.         *)
(***************************************************************************)
EXTENDS Integers, Sequences, FiniteSets, TLC

(* ------------------------------------------------------------------ *)
(* Program constants                                                  *)
(* ------------------------------------------------------------------ *)
ITEM_PER_PAGE == 10
NumServers == 6
TRENDING_RETRY_FOR == 2
SEARCH_RETRY_FOR == 1

(* ------------------------------------------------------------------ *)
(* Bounds of the model                                                *)
(* ------------------------------------------------------------------ *)
\* largest value the backend page cursor (search_res.1.music.1) may reach
MaxCursor == 2
\* largest value of the cursor while one query is paged from page 0 on
MaxChainCursor == 4
\* the rotations of one retried call are counted up to MaxRotations
MaxRotations == 3
\* longest run of digits in a component of a duration string
MaxDigits == 2
\* retry budgets handed to send_request are drawn from -1..MaxRetryFor
MaxRetryFor == 2
\* caller page indices are drawn from 0..MaxPage
MaxPage == 2
\* longest list a backend response holds (longer than one caller page)
MaxBatch == 11

\* the empty string (the query Fetcher::new stores) and a non-empty one
Queries == {"", "a"}
TrendingTag == "#trending"

\* lengths of the lists the backend may answer with
BatchLens == {0, 1, ITEM_PER_PAGE, MaxBatch}

\* what the network may do with one GET
Responses ==
    {[kind |-> "transport_err", len |-> 0], [kind |-> "bad_body", len |-> 0]}
    \cup {[kind |-> "ok", len |-> n] : n \in BatchLens}
NoResponse == [kind |-> "none", len |-> 0]

(* ------------------------------------------------------------------ *)
(* Helpers                                                            *)
(* ------------------------------------------------------------------ *)
Min(a, b) == IF a < b THEN a ELSE b

\* Rust slice s[lo..hi] (0-based, hi exclusive)
Slice(s, lo, hi) == SubSeq(s, lo + 1, hi)

Range(s) == {s[i] : i \in 1..Len(s)}

None == [some |-> FALSE, val |-> <<>>]
Some(v) == [some |-> TRUE, val |-> v]

\* A MusicUnit is an opaque value with a stable identity: the request that
\* produced it (query or the trending tag, backend page) and its position.
MusicUnit(q, n, i) == <<q, n, i>>

\* the deserialized body of a successful response of length len
ResponseBody(q, n, len) == [i \in 1..len |-> MusicUnit(q, n, i)]

VARIABLES
    trending_now,          \* Option<Vec<MusicUnit>>
    search_query,          \* search_res.0
    music_batch,           \* search_res.1.music.0
    music_cursor,          \* search_res.1.music.1
    active_server_index,
    lastOp,                \* history: the last call and what it returned
    lastQuery,             \* history: the query of the last search call
    prevQuery,             \* history: the query of the search call before it
    chain,                 \* history: one query paged 0, 1, 2, ... in order
    retry,                 \* history: the rotations of the call being retried
    net,                   \* environment: "up", or "down" (every mirror fails)
    dur                    \* the Duration codec applied to one string

codeVars == <<trending_now, search_query, music_batch, music_cursor, active_server_index>>

(* ------------------------------------------------------------------ *)
(* impl ExtendDuration for Duration; a string is a sequence of chars  *)
(* ------------------------------------------------------------------ *)
DigitChars == <<"0", "1", "2", "3", "4", "5", "6", "7", "8", "9">>
IsDigit(c) == \E i \in 1..Len(DigitChars) : DigitChars[i] = c
DigitVal(c) == (CHOOSE i \in 1..Len(DigitChars) : DigitChars[i] = c) - 1

\* format!("{}", n) of a u64
RECURSIVE FormatU64(_)
FormatU64(n) ==
    IF n < 10 THEN <<DigitChars[n + 1]>>
    ELSE FormatU64(n \div 10) \o <<DigitChars[(n % 10) + 1]>>

\* the value of a run of digits
RECURSIVE DigitsValue(_)
DigitsValue(d) ==
    IF d = <<>> THEN 0
    ELSE 10 * DigitsValue(SubSeq(d, 1, Len(d) - 1)) + DigitVal(d[Len(d)])

\* str::parse::<u64>().unwrap_or_default(): an optional '+', then one or more
\* digits; anything else gives 0 (runs of at most MaxDigits + 1 digits stay
\* far below u64::MAX, where parse would fail and give 0 as well)
ParseU64OrDefault(str) ==
    LET d == IF str # <<>> /\ str[1] = "+" THEN Tail(str) ELSE str
    IN  IF d = <<>> \/ (\E i \in 1..Len(d) : ~IsDigit(d[i])) THEN 0
        ELSE DigitsValue(d)

\* str::trim
RECURSIVE Trim(_)
Trim(str) ==
    IF str = <<>> THEN str
    ELSE IF Head(str) = " " THEN Trim(Tail(str))
    ELSE IF str[Len(str)] = " " THEN Trim(SubSeq(str, 1, Len(str) - 1))
    ELSE str

\* str::split_once(':').unwrap() of a string that holds a ':'
SplitOnce(str) ==
    LET k == CHOOSE i \in 1..Len(str) :
                 str[i] = ":" /\ \A j \in 1..(i - 1) : str[j] # ":"
    IN  <<SubSeq(str, 1, k - 1), SubSeq(str, k + 1, Len(str))>>

\* faulty variant: the seconds are not reduced modulo 60
to_string_NoModulo(secs) ==
    FormatU64(secs \div 60) \o <<":">> \o FormatU64(secs)

\* lines 11-20
to_string(secs) ==
    FormatU64(secs \div 60) \o <<":">> \o FormatU64(secs % 60)

\* lines 23-28: the Duration, in whole seconds
from_string(inp) ==
    LET splitted == SplitOnce(inp)
    IN  60 * ParseU64OrDefault(Trim(splitted[1])) + ParseU64OrDefault(Trim(splitted[2]))

(* ------------------------------------------------------------------ *)
(* Fetcher::new / change_server                                       *)
(* ------------------------------------------------------------------ *)
NoOp == [op |-> "new", query |-> "", page |-> 0, requested |-> FALSE,
         target |-> 0, cursorSent |-> 0, resp |-> "none", exec |-> "none",
         result |-> "none", items |-> <<>>, carried |-> <<>>, retry_for |-> 0]

FetcherNew ==
    /\ trending_now = None
    /\ search_query = ""
    /\ music_batch = <<>>
    /\ music_cursor = 0
    /\ active_server_index = 0

\* faulty variant: the index is advanced without wrapping around
Rotate_NoWrap(idx, len) == idx + 1

\* line 60, for a pool of len servers
Rotate(idx, len) == (idx + 1) % len

change_server(idx) == Rotate(idx, NumServers)

(* ------------------------------------------------------------------ *)
(* send_request: the outcome of one GET and the server index after it *)
(* ------------------------------------------------------------------ *)
\* faulty variant: a budget of 0 still retries
send_request_RetryAtZero(resp, body, retry_for, idx) ==
    IF resp.kind = "ok" THEN [res |-> "Ok", val |-> body, idx |-> idx]
    ELSE IF resp.kind = "bad_body" THEN [res |-> "Failed", val |-> <<>>, idx |-> idx]
    ELSE IF retry_for >= 0 THEN [res |-> "Retry", val |-> <<>>, idx |-> change_server(idx)]
    ELSE [res |-> "Failed", val |-> <<>>, idx |-> idx]

\* faulty variant: a body that does not deserialize is retried like a
\* transport failure
send_request_RetryBadBody(resp, body, retry_for, idx) ==
    IF resp.kind = "ok" THEN [res |-> "Ok", val |-> body, idx |-> idx]
    ELSE IF retry_for > 0 THEN [res |-> "Retry", val |-> <<>>, idx |-> change_server(idx)]
    ELSE [res |-> "Failed", val |-> <<>>, idx |-> idx]

send_request(resp, body, retry_for, idx) ==
    IF resp.kind = "ok" THEN [res |-> "Ok", val |-> body, idx |-> idx]
    ELSE IF resp.kind = "bad_body" THEN [res |-> "Failed", val |-> <<>>, idx |-> idx]
    ELSE IF retry_for > 0 THEN [res |-> "Retry", val |-> <<>>, idx |-> change_server(idx)]
    ELSE [res |-> "Failed", val |-> <<>>, idx |-> idx]

(* ------------------------------------------------------------------ *)
(* get_trending_music                                                 *)
(* ------------------------------------------------------------------ *)
\* faulty variant: the fetch is issued on every call
TrendingNeedsFetch_Always(tn) == TRUE

\* line 100: the fetch is issued only while nothing is stored
TrendingNeedsFetch(tn) == ~tn.some

\* faulty variant: the end-of-results test is > instead of >=
TrendingPage_StrictEnd(list, page) ==
    LET lower_limit == ITEM_PER_PAGE * page
        upper_limit == Min(Len(list), lower_limit + ITEM_PER_PAGE)
    IN  IF lower_limit > upper_limit
        THEN [result |-> "EOR", items |-> <<>>]
        ELSE [result |-> "Ok", items |-> Slice(list, lower_limit, upper_limit)]

\* faulty variant: pages overlap, each starts one item before the previous end
TrendingPage_Overlap(list, page) ==
    LET lower_limit == (ITEM_PER_PAGE - 1) * page
        upper_limit == Min(Len(list), lower_limit + ITEM_PER_PAGE)
    IN  IF lower_limit >= upper_limit
        THEN [result |-> "EOR", items |-> <<>>]
        ELSE [result |-> "Ok", items |-> Slice(list, lower_limit, upper_limit)]

\* lines 117-123: the page of the stored list
TrendingPage(list, page) ==
    LET lower_limit == ITEM_PER_PAGE * page
        upper_limit == Min(Len(list), lower_limit + ITEM_PER_PAGE)
    IN  IF lower_limit >= upper_limit
        THEN [result |-> "EOR", items |-> <<>>]
        ELSE [result |-> "Ok", items |-> Slice(list, lower_limit, upper_limit)]

\* faulty variant: a failed fetch stores an empty list
TrendingStore_Poison(tn, obj) == IF obj.res = "Ok" THEN Some(obj.val) ELSE Some(<<>>)

\* lines 108-114: what is stored after the fetch
TrendingStore(tn, obj) == IF obj.res = "Ok" THEN Some(obj.val) ELSE tn

GetTrendingMusic(page, resp) ==
    LET fetch == TrendingNeedsFetch(trending_now)
        obj == send_request(resp, ResponseBody(TrendingTag, 0, resp.len),
                            TRENDING_RETRY_FOR, active_server_index)
        op == [op |-> "trending", query |-> TrendingTag, page |-> page,
               requested |-> fetch,
               target |-> active_server_index, cursorSent |-> 0,
               resp |-> resp.kind, exec |-> IF fetch THEN obj.res ELSE "none",
               result |-> "none", items |-> <<>>, carried |-> <<>>,
               retry_for |-> TRENDING_RETRY_FOR]
    IN  /\ fetch <=> resp # NoResponse
        /\ trending_now' = IF fetch THEN TrendingStore(trending_now, obj) ELSE trending_now
        /\ active_server_index' = IF fetch THEN obj.idx ELSE active_server_index
        /\ IF fetch /\ obj.res # "Ok"
           THEN lastOp' = [op EXCEPT !.result = obj.res]
           ELSE LET pg == TrendingPage(trending_now'.val, page)
                IN  lastOp' = [op EXCEPT !.result = pg.result, !.items = pg.items]
        /\ UNCHANGED <<search_query, music_batch, music_cursor>>

Trending == \E page \in 0..MaxPage, resp \in Responses \cup {NoResponse} :
    GetTrendingMusic(page, resp)

(* ------------------------------------------------------------------ *)
(* search_music                                                       *)
(* ------------------------------------------------------------------ *)
\* faulty variant: the carried part is always taken from the start of the batch
Carried_FromStart(query, page, cached_query, batch) ==
    IF query = cached_query
    THEN LET lower_limit == 0
             upper_limit == Min(Len(batch), lower_limit + ITEM_PER_PAGE)
         IN  IF upper_limit > lower_limit THEN Slice(batch, lower_limit, upper_limit)
             ELSE <<>>
    ELSE <<>>

\* lines 131-142: the unserved part of the previous fetch
Carried(query, page, cached_query, batch) ==
    IF query = cached_query
    THEN LET lower_limit == ITEM_PER_PAGE * page
             upper_limit == Min(Len(batch), lower_limit + ITEM_PER_PAGE)
         IN  IF upper_limit > lower_limit THEN Slice(batch, lower_limit, upper_limit)
             ELSE <<>>
    ELSE <<>>

\* faulty variant: the cursor is not advanced
NextCursor_Stuck(cursor) == cursor

\* faulty variant: the cursor is advanced by two
NextCursor_Skip(cursor) == cursor + 2

\* line 145: the cursor sent with the request
NextCursor(cursor) == cursor + 1

\* faulty variant: the new batch fills a whole page whatever was carried over
Extend_WholePage(prev_res, res) ==
    LET upper_limit == Min(Len(res), ITEM_PER_PAGE)
    IN  prev_res \o Slice(res, 0, upper_limit)

\* lines 157-161: what the new batch adds to the page
Extend(prev_res, res) ==
    LET upper_limit == Min(Len(res), ITEM_PER_PAGE - Len(prev_res))
    IN  prev_res \o Slice(res, 0, upper_limit)

\* faulty variant: a full carried page still needs a fetch
SearchNeedsFetch_Inclusive(prev_res) == Len(prev_res) <= ITEM_PER_PAGE

\* line 144
SearchNeedsFetch(prev_res) == Len(prev_res) < ITEM_PER_PAGE

\* faulty variant: a failed fetch clears the cached batch
BatchAfter_ClearOnError(batch, obj) == obj.val

\* lines 154-167: the cached batch after the fetch
BatchAfter(batch, obj) == IF obj.res = "Ok" THEN obj.val ELSE batch

SearchMusic(query, page, resp) ==
    LET prev_res == Carried(query, page, search_query, music_batch)
        fetch == SearchNeedsFetch(prev_res)
        cursor == NextCursor(music_cursor)
        obj == send_request(resp, ResponseBody(query, cursor, resp.len),
                            SEARCH_RETRY_FOR, active_server_index)
        op == [op |-> "search", query |-> query, page |-> page,
               requested |-> fetch,
               target |-> active_server_index,
               cursorSent |-> IF fetch THEN cursor ELSE 0,
               resp |-> resp.kind, exec |-> IF fetch THEN obj.res ELSE "none",
               result |-> "none", items |-> <<>>, carried |-> prev_res,
               retry_for |-> SEARCH_RETRY_FOR]
    IN  /\ fetch <=> resp # NoResponse
        /\ IF ~fetch
           THEN /\ lastOp' = [op EXCEPT !.result = "Ok", !.items = prev_res]
                /\ UNCHANGED <<music_batch, music_cursor, active_server_index>>
           ELSE /\ music_cursor' = cursor
                /\ active_server_index' = obj.idx
                /\ music_batch' = BatchAfter(music_batch, obj)
                /\ IF obj.res = "Ok"
                   THEN LET page_items == Extend(prev_res, music_batch')
                        IN  lastOp' = IF page_items = <<>>
                                      THEN [op EXCEPT !.result = "EOR"]
                                      ELSE [op EXCEPT !.result = "Ok",
                                                      !.items = page_items]
                   ELSE lastOp' = [op EXCEPT !.result = obj.res]
        /\ UNCHANGED <<trending_now, search_query>>

\* pub fn change_server, called from outside the fetcher
ChangeServer ==
    /\ active_server_index' = change_server(active_server_index)
    /\ lastOp' = [NoOp EXCEPT !.op = "change_server", !.target = active_server_index]
    /\ UNCHANGED <<trending_now, search_query, music_batch, music_cursor>>

\* the model follows search_music only while the cursor it sends is within cap
CursorWithin(query, page, cap) ==
    SearchNeedsFetch(Carried(query, page, search_query, music_batch))
        => NextCursor(music_cursor) <= cap

Search == \E query \in Queries, page \in 0..MaxPage, resp \in Responses \cup {NoResponse} :
    /\ CursorWithin(query, page, MaxCursor)
    /\ SearchMusic(query, page, resp)

(* ------------------------------------------------------------------ *)
(* The fetcher driven by an arbitrary caller                          *)
(* ------------------------------------------------------------------ *)
NoQuery == "#none"

vars == <<trending_now, search_query, music_batch, music_cursor,
          active_server_index, lastOp, lastQuery, prevQuery, chain, retry, net, dur>>

NoRetry == [op |-> "none", before |-> 0, rotations |-> 0]
NoDur == [pc |-> "idle", inp |-> <<>>, secs |-> 0, out |-> <<>>]

NoChain == [phase |-> "idle", query |-> "", next |-> 0, served |-> <<>>,
            lens |-> <<>>, fetched |-> {}, clean |-> TRUE]

Init ==
    /\ FetcherNew
    /\ lastOp = NoOp
    /\ lastQuery = NoQuery
    /\ prevQuery = NoQuery
    /\ chain = NoChain
    /\ retry = NoRetry
    /\ net = "up"
    /\ dur = NoDur

CallTrending == Trending /\ UNCHANGED <<lastQuery, prevQuery, chain, retry, net, dur>>
CallSearch ==
    /\ Search
    /\ lastQuery' = lastOp'.query
    /\ prevQuery' = lastQuery
    /\ UNCHANGED <<chain, retry, net, dur>>
CallChangeServer == ChangeServer /\ UNCHANGED <<lastQuery, prevQuery, chain, retry, net, dur>>

Next == CallTrending \/ CallSearch \/ CallChangeServer

Spec == Init /\ [][Next]_vars

(* ------------------------------------------------------------------ *)
(* One query paged 0, 1, 2, ... until the first EOR                   *)
(* ------------------------------------------------------------------ *)
\* Calls made before the paging starts: the fetcher may be in any state.
ChainWarmup ==
    /\ chain.phase = "idle"
    /\ \E query \in Queries, page \in 0..MaxPage, resp \in Responses \cup {NoResponse} :
          /\ CursorWithin(query, page, MaxCursor)
          /\ SearchMusic(query, page, resp)
    /\ UNCHANGED <<lastQuery, prevQuery, chain, retry, net, dur>>

\* The history of the paging after the call search_music(query, page).
ChainAfter(c, query, page, op, batch) ==
    [phase |-> IF op.result = "EOR" THEN "done" ELSE "active",
     query |-> query,
     next |-> IF op.result = "Ok" THEN page + 1 ELSE page,
     served |-> c.served \o op.items,
     lens |-> IF op.result = "Ok" THEN Append(c.lens, Len(op.items)) ELSE c.lens,
     fetched |-> IF op.exec = "Ok" THEN c.fetched \cup Range(batch) ELSE c.fetched,
     clean |-> c.clean /\ op.result \notin {"Retry", "Failed"}]

\* The caller asks for page 0 of a query.
ChainStart ==
    /\ chain.phase = "idle"
    /\ \E query \in Queries, resp \in Responses \cup {NoResponse} :
          /\ CursorWithin(query, 0, MaxChainCursor)
          /\ SearchMusic(query, 0, resp)
          /\ chain' = ChainAfter(NoChain, query, 0, lastOp', music_batch')
    /\ UNCHANGED <<lastQuery, prevQuery, retry, net, dur>>

\* The caller asks for the next page (the same page again after a failure).
ChainStep ==
    /\ chain.phase = "active"
    /\ chain.next <= MaxPage
    /\ \E resp \in Responses \cup {NoResponse} :
          /\ CursorWithin(chain.query, chain.next, MaxChainCursor)
          /\ SearchMusic(chain.query, chain.next, resp)
          /\ chain' = ChainAfter(chain, chain.query, chain.next, lastOp', music_batch')
    /\ UNCHANGED <<lastQuery, prevQuery, retry, net, dur>>

NextChain == ChainWarmup \/ ChainStart \/ ChainStep

SpecChain == Init /\ [][NextChain]_vars

\* the backend returned item a before item b
BackendBefore(a, b) == a[2] < b[2] \/ (a[2] = b[2] /\ a[3] < b[3])

\* C1: the concatenation of the pages returned for one query asked with
\* page indices 0, 1, 2, ... holds no item twice and lists the items in the
\* order the backend returned them.
C1_ChainNoDuplicatesInOrder ==
    \A i, j \in 1..Len(chain.served) :
        i < j => (/\ chain.served[i] # chain.served[j]
                  /\ BackendBefore(chain.served[i], chain.served[j]))

C1_Witness ==
    /\ chain.phase = "done"
    /\ chain.query = ""
    /\ chain.next = 2
    /\ chain.lens = <<ITEM_PER_PAGE, 2>>
    /\ lastOp.carried = <<>>

\* C3: when one query is paged 0, 1, 2, ... up to the first EOR with every
\* fetch succeeding, every item of every fetched backend batch was returned
\* in some page, and only the last page before EOR is shorter than
\* ITEM_PER_PAGE.
C3_NoBackendItemSkipped ==
    (chain.phase = "done" /\ chain.clean) =>
        /\ chain.fetched \subseteq Range(chain.served)
        /\ \A k \in 1..(Len(chain.lens) - 1) : chain.lens[k] = ITEM_PER_PAGE

(* ------------------------------------------------------------------ *)
(* A caller that re-invokes the same call after each Retry            *)
(* ------------------------------------------------------------------ *)
\* what the network may answer: only transport failures once it is down
NetResponses ==
    IF net = "down" THEN {[kind |-> "transport_err", len |-> 0]} ELSE Responses

\* after a Retry the caller repeats the call that returned it
Reinvokes(op, query, page) ==
    lastOp.result = "Retry" =>
        (lastOp.op = op /\ lastOp.query = query /\ lastOp.page = page)

\* the rotations made by the call and by the Retry results it repeats
RetryAfter(op, query, page) ==
    LET base == IF /\ lastOp.result = "Retry"
                   /\ lastOp.op = op /\ lastOp.query = query /\ lastOp.page = page
                THEN retry.rotations ELSE 0
        rot == IF active_server_index' # active_server_index THEN 1 ELSE 0
    IN  [op |-> op, before |-> base, rotations |-> Min(base + rot, MaxRotations)]

RetryTrending ==
    /\ \E page \in 0..MaxPage, resp \in NetResponses \cup {NoResponse} :
          /\ Reinvokes("trending", TrendingTag, page)
          /\ GetTrendingMusic(page, resp)
          /\ retry' = RetryAfter("trending", TrendingTag, page)
    /\ UNCHANGED <<lastQuery, prevQuery, chain, net, dur>>

RetrySearch ==
    /\ \E query \in Queries, page \in 0..MaxPage, resp \in NetResponses \cup {NoResponse} :
          /\ Reinvokes("search", query, page)
          /\ CursorWithin(query, page, MaxCursor)
          /\ SearchMusic(query, page, resp)
          /\ retry' = RetryAfter("search", query, page)
    /\ UNCHANGED <<lastQuery, prevQuery, chain, net, dur>>

\* from here on every mirror fails at transport level
Outage ==
    /\ net = "up"
    /\ net' = "down"
    /\ lastOp' = [NoOp EXCEPT !.op = "outage"]
    /\ retry' = NoRetry
    /\ UNCHANGED <<codeVars, lastQuery, prevQuery, chain, dur>>

RetryCall == RetryTrending \/ RetrySearch

NextRetry == RetryTrending \/ RetrySearch \/ Outage

\* the caller keeps calling: a call that can be made is eventually made
SpecRetry == Init /\ [][NextRetry]_vars /\ WF_vars(RetryCall)

\* C4: while every attempt of a retried get_trending_music call fails at
\* transport level, the call chain rotates exactly TRENDING_RETRY_FOR times
\* and its next attempt returns Failed.
C4_TrendingTwoRotationsThenFailed ==
    retry.op = "trending" =>
        /\ retry.rotations <= TRENDING_RETRY_FOR
        /\ (retry.before = TRENDING_RETRY_FOR /\ lastOp.resp = "transport_err")
              => lastOp.result = "Failed"

\* the model follows search_music no further than cursor MaxCursor
CursorBoundReached == music_cursor >= MaxCursor

\* C5: while every mirror fails at transport level, a caller that received
\* Retry and re-invokes the same call after each Retry eventually receives
\* Failed (a search chain is followed up to the bound on the cursor).
C5_RetryEndsInFailed ==
    (net = "down" /\ lastOp.result = "Retry")
        ~> (lastOp.result = "Failed" \/ CursorBoundReached)

(* ------------------------------------------------------------------ *)
(* The Duration codec applied to well-formed strings                  *)
(* ------------------------------------------------------------------ *)
DigitChoices == {"0", "1", "5", "9"}
DigitRuns == UNION {[1..n -> DigitChoices] : n \in 1..MaxDigits}
\* "minutes:seconds", each component one or more digits
WellFormed == {m \o <<":">> \o sec : m \in DigitRuns, sec \in DigitRuns}

InitDuration ==
    /\ FetcherNew
    /\ lastOp = NoOp
    /\ lastQuery = NoQuery
    /\ prevQuery = NoQuery
    /\ chain = NoChain
    /\ retry = NoRetry
    /\ net = "up"
    /\ dur \in {[pc |-> "input", inp |-> str, secs |-> 0, out |-> <<>>] : str \in WellFormed}

DurFromString ==
    /\ dur.pc = "input"
    /\ dur' = [dur EXCEPT !.pc = "parsed", !.secs = from_string(dur.inp)]
    /\ UNCHANGED <<codeVars, lastOp, lastQuery, prevQuery, chain, retry, net>>

DurToString ==
    /\ dur.pc = "parsed"
    /\ dur' = [dur EXCEPT !.pc = "printed", !.out = to_string(dur.secs)]
    /\ UNCHANGED <<codeVars, lastOp, lastQuery, prevQuery, chain, retry, net>>

NextDuration == DurFromString \/ DurToString

SpecDuration == InitDuration /\ [][NextDuration]_vars

\* C10 as claimed: to_string(from_string(s)) = s for every well-formed
\* "minutes:seconds" string s whose components have one or more digits.
C10_RoundTripAllWellFormed ==
    dur.pc = "printed" => dur.out = dur.inp

\* the strings to_string produces: no leading zero in either component
\* (a lone "0" apart) and seconds below 60
NoLeadingZero(d) == Len(d) = 1 \/ d[1] # "0"
Canonical(str) ==
    LET splitted == SplitOnce(str)
    IN  /\ NoLeadingZero(splitted[1])
        /\ NoLeadingZero(splitted[2])
        /\ DigitsValue(splitted[2]) < 60

\* C10 amended: to_string(from_string(s)) = s for every well-formed s whose
\* components have no leading zero and whose seconds are below 60; for
\* every other well-formed s the result differs from s.
C10_RoundTripCanonical ==
    dur.pc = "printed" => (dur.out = dur.inp <=> Canonical(dur.inp))

C10_Witness ==
    /\ dur.pc = "printed"
    /\ dur.inp = <<"1", "5", ":", "5", "9">>
    /\ dur.secs = 959
    /\ dur.out = dur.inp

(* ------------------------------------------------------------------ *)
(* Claims checked under Spec                                          *)
(* ------------------------------------------------------------------ *)
ItemQuery(item) == item[1]

\* C2: the first call search_music(B, 0) after a search call for a different
\* query A succeeds only with items fetched for B, for every B (also "").
C2_NewQueryFirstPageOwnItems ==
    (/\ lastOp.op = "search"
     /\ lastOp.page = 0
     /\ lastOp.result = "Ok"
     /\ prevQuery # NoQuery
     /\ prevQuery # lastOp.query)
    => \A i \in 1..Len(lastOp.items) : ItemQuery(lastOp.items[i]) = lastOp.query

\* C6: once the trending list is stored, no step changes it and no
\* get_trending_music call issues a backend request.
C6_TrendingWriteOnce ==
    [][trending_now.some =>
         /\ trending_now' = trending_now
         /\ (lastOp'.op = "trending" => ~lastOp'.requested)]_vars

C6_Witness ==
    /\ trending_now.some
    /\ Len(trending_now.val) > ITEM_PER_PAGE
    /\ lastOp.op = "trending"
    /\ ~lastOp.requested
    /\ lastOp.page = 1
    /\ music_cursor > 0

\* C7: with a stored trending list of length len, get_trending_music(p)
\* returns EOR exactly when p * ITEM_PER_PAGE >= len, and otherwise the items
\* at indices [p * ITEM_PER_PAGE, min(len, p * ITEM_PER_PAGE + ITEM_PER_PAGE)).
C7_TrendingPageExact ==
    (lastOp.op = "trending" /\ lastOp.result \in {"Ok", "EOR"}) =>
        LET list == trending_now.val
            len == Len(list)
            first == lastOp.page * ITEM_PER_PAGE
            last == Min(len, first + ITEM_PER_PAGE)
        IN  /\ trending_now.some
            /\ (lastOp.result = "EOR") <=> (first >= len)
            /\ lastOp.result = "Ok" =>
                   lastOp.items = [i \in 1..(last - first) |-> list[first + i]]

C7_Witness ==
    /\ lastOp.op = "trending"
    /\ lastOp.result = "Ok"
    /\ lastOp.page = 1
    /\ Len(trending_now.val) = MaxBatch
    /\ Len(lastOp.items) = MaxBatch - ITEM_PER_PAGE

\* C8: a get_trending_music call made while nothing is stored issues a
\* fetch; when the fetch fails the call returns the executor's error (Retry
\* or Failed) and nothing is stored; when it succeeds the list is stored.
C8_TrendingFailureLeavesEmpty ==
    [][(lastOp'.op = "trending" /\ ~trending_now.some) =>
         /\ lastOp'.requested
         /\ lastOp'.exec # "Ok" =>
               /\ lastOp'.result = lastOp'.exec
               /\ lastOp'.result \in {"Retry", "Failed"}
               /\ trending_now' = None
         /\ lastOp'.exec = "Ok" =>
               /\ trending_now'.some
               /\ lastOp'.result \in {"Ok", "EOR"}]_vars

C8_Witness ==
    /\ lastOp.op = "trending"
    /\ lastOp.requested
    /\ lastOp.result = "Retry"
    /\ ~trending_now.some

\* C9: search_music returns EOR exactly when its fetch succeeded, nothing was
\* carried over and the new batch is empty; a success holds between 1 and
\* ITEM_PER_PAGE items.
C9_SearchEndOfResults ==
    lastOp.op = "search" =>
        /\ (lastOp.result = "EOR") <=>
              (/\ lastOp.requested
               /\ lastOp.exec = "Ok"
               /\ lastOp.carried = <<>>
               /\ music_batch = <<>>)
        /\ lastOp.result = "Ok" =>
              (Len(lastOp.items) >= 1 /\ Len(lastOp.items) <= ITEM_PER_PAGE)

C9_Witness ==
    /\ lastOp.op = "search"
    /\ lastOp.result = "Ok"
    /\ lastOp.requested
    /\ Len(lastOp.carried) = 1
    /\ Len(lastOp.items) = 2

\* C11: a search_music call whose query differs from the query of the
\* previous search call sends backend page 1 with the request it issues.
C11_NewQueryRequestsPageOne ==
    (/\ lastOp.op = "search"
     /\ lastOp.requested
     /\ prevQuery # NoQuery
     /\ prevQuery # lastOp.query)
    => lastOp.cursorSent = 1

\* C12: after a search_music(q, p) call that served a page, the query stored
\* in the search cache is q, so that the same q asked again carries over the
\* cached batch's part [ITEM_PER_PAGE * p', ...).
C12_ServedQueryIsCached ==
    (lastOp.op = "search" /\ lastOp.result = "Ok") =>
        /\ search_query = lastOp.query
        /\ \A page \in 0..MaxPage :
              Carried(lastOp.query, page, search_query, music_batch)
                  = Carried(lastOp.query, page, lastOp.query, music_batch)

\* C13 as claimed: between search calls the cached batch is the result of
\* backend page music_cursor - 1 for the cached query.
C13_BatchIsPageBeforeCursor ==
    music_batch = ResponseBody(search_query, music_cursor - 1, Len(music_batch))

\* the batch is the result of backend page n for some query
BatchIsPage(n) ==
    \E q \in Queries : music_batch = ResponseBody(q, n, Len(music_batch))

\* C13 amended: between search calls the cached batch is empty or the result
\* of one backend page n with 1 <= n <= music_cursor; right after a
\* successful fetch it is page music_cursor for the query of that call, and
\* after a failed fetch a non-empty batch is a page below music_cursor.
C13_BatchIsFetchedPage ==
    /\ music_batch # <<>> => \E n \in 1..music_cursor : BatchIsPage(n)
    /\ (lastOp.op = "search" /\ lastOp.exec = "Ok") =>
          music_batch = ResponseBody(lastOp.query, music_cursor, Len(music_batch))
    /\ (lastOp.op = "search" /\ lastOp.exec \in {"Retry", "Failed"}
            /\ music_batch # <<>>) =>
          \E n \in 1..(music_cursor - 1) : BatchIsPage(n)

C13_Witness ==
    /\ lastOp.op = "search"
    /\ lastOp.exec = "Retry"
    /\ music_cursor = 2
    /\ Len(music_batch) = MaxBatch
    /\ BatchIsPage(1)

\* C14: a search_music call that needs a fetch sends the cursor advanced by
\* exactly 1 and keeps the advance whatever the fetch returns; when the
\* fetch fails the call returns the executor's error, so the same page asked
\* again requests the next backend page.
C14_FetchAdvancesCursor ==
    [][(lastOp'.op = "search" /\ lastOp'.requested) =>
         /\ lastOp'.cursorSent = music_cursor + 1
         /\ music_cursor' = music_cursor + 1
         /\ lastOp'.exec # "Ok" =>
               (lastOp'.result = lastOp'.exec /\ lastOp'.result \in {"Retry", "Failed"})
         /\ (lastOp.op = "search" /\ lastOp.requested /\ lastOp.exec # "Ok"
                 /\ lastOp.query = lastOp'.query /\ lastOp.page = lastOp'.page) =>
               lastOp'.cursorSent = lastOp.cursorSent + 1]_vars

C14_Witness ==
    /\ lastOp.op = "search"
    /\ lastOp.result = "Retry"
    /\ lastOp.cursorSent = 2
    /\ lastQuery = prevQuery
    /\ music_cursor = 2
    /\ active_server_index = 2

\* C15: a search_music call whose fetch fails leaves the cached batch, the
\* trending cache and the cached query as they were; the cursor advances by
\* 1 and the server index rotates once for Retry and stays for Failed.
C15_FailedSearchFrame ==
    [][(lastOp'.op = "search" /\ lastOp'.exec \in {"Retry", "Failed"}) =>
         /\ music_batch' = music_batch
         /\ trending_now' = trending_now
         /\ search_query' = search_query
         /\ music_cursor' = music_cursor + 1
         /\ lastOp'.exec = "Retry" =>
               active_server_index' = (active_server_index + 1) % NumServers
         /\ lastOp'.exec = "Failed" =>
               active_server_index' = active_server_index]_vars

C15_Witness ==
    /\ lastOp.op = "search"
    /\ lastOp.exec = "Failed"
    /\ music_batch # <<>>
    /\ trending_now.some
    /\ trending_now.val # <<>>

\* C16: when the carried part already holds ITEM_PER_PAGE items, search_music
\* returns it without a backend request and leaves the cursor, the cached
\* batch and the server index as they were.
C16_FullCarriedPageNoRequest ==
    [][(lastOp'.op = "search" /\ Len(lastOp'.carried) = ITEM_PER_PAGE) =>
         /\ ~lastOp'.requested
         /\ lastOp'.result = "Ok"
         /\ lastOp'.items = lastOp'.carried
         /\ music_cursor' = music_cursor
         /\ music_batch' = music_batch
         /\ active_server_index' = active_server_index]_vars

C16_Witness ==
    /\ lastOp.op = "search"
    /\ Len(lastOp.carried) = ITEM_PER_PAGE
    /\ ~lastOp.requested
    /\ Len(music_batch) = MaxBatch
    /\ music_cursor = 1

(* ------------------------------------------------------------------ *)
(* send_request called with any retry budget                          *)
(* ------------------------------------------------------------------ *)
RetryBudgets == (-1)..MaxRetryFor
AnyPath == "#path"

SendRequest ==
    /\ \E retry_for \in RetryBudgets, resp \in Responses :
          LET obj == send_request(resp, ResponseBody(AnyPath, 0, resp.len),
                                  retry_for, active_server_index)
          IN  /\ active_server_index' = obj.idx
              /\ lastOp' = [NoOp EXCEPT !.op = "send_request", !.query = AnyPath,
                                        !.requested = TRUE,
                                        !.target = active_server_index,
                                        !.resp = resp.kind, !.exec = obj.res,
                                        !.result = obj.res, !.items = obj.val,
                                        !.retry_for = retry_for]
    /\ UNCHANGED <<trending_now, search_query, music_batch, music_cursor,
                   lastQuery, prevQuery, chain, retry, net, dur>>

NextExec == SendRequest

SpecExec == Init /\ [][NextExec]_vars

\* C17: on a transport failure send_request returns Retry and rotates the
\* pool exactly once when retry_for > 0, so the next request goes to another
\* mirror than the failed one; when retry_for <= 0 it returns Failed and
\* does not rotate.
C17_TransportFailureRotatesOnBudget ==
    [][lastOp'.op = "send_request" =>
         /\ lastOp'.target = active_server_index
         /\ lastOp'.resp = "transport_err" =>
               IF lastOp'.retry_for > 0
               THEN /\ lastOp'.exec = "Retry"
                    /\ active_server_index' = (active_server_index + 1) % NumServers
                    /\ active_server_index' # lastOp'.target
               ELSE /\ lastOp'.exec = "Failed"
                    /\ active_server_index' = active_server_index]_vars

C17_Witness ==
    /\ lastOp.op = "send_request"
    /\ lastOp.resp = "transport_err"
    /\ lastOp.retry_for = 0
    /\ lastOp.exec = "Failed"
    /\ lastOp.target = NumServers - 1
    /\ active_server_index = NumServers - 1

\* C18: when the transport succeeds and the body does not deserialize,
\* send_request returns Failed for every retry_for and the server index is
\* the same after the call as before it.
C18_BadBodyFailsWithoutRotation ==
    (lastOp.op = "send_request" /\ lastOp.resp = "bad_body") =>
        /\ lastOp.exec = "Failed"
        /\ active_server_index = lastOp.target

C18_Witness ==
    /\ lastOp.op = "send_request"
    /\ lastOp.resp = "bad_body"
    /\ lastOp.retry_for = MaxRetryFor
    /\ lastOp.exec = "Failed"
    /\ active_server_index = 1

(* ------------------------------------------------------------------ *)
(* Claims checked under Spec: the server pool                         *)
(* ------------------------------------------------------------------ *)
ValidIndex(idx, len) == idx \in 0..(len - 1)

\* C19: active_server_index is always a valid index of the pool; a step
\* changes it only by a rotation (change_server, or send_request returning
\* Retry), which sets it to (index + 1) mod len; rotation keeps every index
\* of every pool size valid and leaves a 1-element pool at 0.
C19_ActiveIndexValidAndRotatesCyclically ==
    [][/\ ValidIndex(active_server_index, NumServers)
       /\ ValidIndex(active_server_index', NumServers)
       /\ active_server_index' # active_server_index =>
             /\ lastOp'.op = "change_server" \/ lastOp'.exec = "Retry"
             /\ active_server_index' = (active_server_index + 1) % NumServers
       /\ (lastOp'.op = "change_server" \/ lastOp'.exec = "Retry") =>
             active_server_index' = (active_server_index + 1) % NumServers
       /\ \A len \in 1..NumServers : \A idx \in 0..(len - 1) :
             ValidIndex(Rotate(idx, len), len)
       /\ Rotate(0, 1) = 0]_vars

C19_Witness ==
    /\ active_server_index = 0
    /\ lastOp.target = NumServers - 1
    /\ lastOp.exec = "Retry"

(* ------------------------------------------------------------------ *)
(* The trending list paged 0, 1, 2, ... while the result is Ok        *)
(* (the loop of tests::test_trending_extractor)                       *)
(* ------------------------------------------------------------------ *)
\* Calls made before the loop starts.
TrendingWarmup ==
    /\ chain.phase = "idle"
    /\ Trending \/ ChangeServer
    /\ UNCHANGED <<lastQuery, prevQuery, chain, retry, net, dur>>

\* One turn of the loop: page chain.next is asked; any Err ends the loop.
TrendingLoop ==
    /\ chain.phase \in {"idle", "active"}
    /\ chain.phase = "active" => chain.query = TrendingTag
    /\ chain.next <= MaxPage
    /\ \E resp \in Responses \cup {NoResponse} :
          /\ GetTrendingMusic(chain.next, resp)
          /\ chain' = [phase |-> IF lastOp'.result = "Ok" THEN "active" ELSE "done",
                       query |-> TrendingTag,
                       next |-> IF lastOp'.result = "Ok" THEN chain.next + 1
                                ELSE chain.next,
                       served |-> chain.served \o lastOp'.items,
                       lens |-> IF lastOp'.result = "Ok"
                                THEN Append(chain.lens, Len(lastOp'.items))
                                ELSE chain.lens,
                       fetched |-> {},
                       clean |-> lastOp'.result \notin {"Retry", "Failed"}]
    /\ UNCHANGED <<lastQuery, prevQuery, retry, net, dur>>

NextTrending == TrendingWarmup \/ TrendingLoop

SpecTrending == Init /\ [][NextTrending]_vars

CeilDiv(a, b) == (a + b - 1) \div b

\* C20: paging the stored trending list of length len with 0, 1, 2, ...
\* never serves more than ceil(len / ITEM_PER_PAGE) pages; the pages served
\* so far are a prefix of the list; and when the loop ends with EOR it has
\* served exactly ceil(len / ITEM_PER_PAGE) pages whose concatenation is the
\* whole list in order.
C20_TrendingLoopServesWholeList ==
    (chain.query = TrendingTag /\ trending_now.some) =>
        LET list == trending_now.val
            pages == CeilDiv(Len(list), ITEM_PER_PAGE)
        IN  /\ Len(chain.lens) = chain.next
            /\ chain.next <= pages
            /\ chain.served = SubSeq(list, 1, Len(chain.served))
            /\ chain.phase = "done" =>
                  /\ lastOp.result = "EOR"
                  /\ chain.next = pages
                  /\ chain.served = list

C20_Witness ==
    /\ chain.query = TrendingTag
    /\ chain.phase = "done"
    /\ lastOp.result = "EOR"
    /\ chain.lens = <<ITEM_PER_PAGE, MaxBatch - ITEM_PER_PAGE>>
    /\ Len(trending_now.val) = MaxBatch

====
